---- MODULE Spec2Model ----
(***************************************************************************)
(* Model of IranSCBot.py: the three API clients (get_weather, fetch_joke,  *)
(* fetch_news), the five command handlers and main().                      *)
(*                                                                         *)
(* Strings are sequences of tokens.  A token is a word or a fragment of a  *)
(* message that is never split by the code; the Persian texts of the       *)
(* source are written as ASCII tokens, the original quoted in the comment. *)
(* The substring test of line 124 ("متاسفم" in weather_info) is token       *)
(* membership: SORRY is a token of its own in every message holding it.    *)
(***************************************************************************)
EXTENDS Naturals, Sequences, FiniteSets

VARIABLES
    mainPc,        \* position of main(): lines 146..166
    handlers,      \* command names registered by add_handler, in order
    commandsSet,   \* command metadata the platform has received
    neverAwaited,  \* coroutine objects created and dropped without await
    queue,         \* updates fetched by the receive loop, not yet dispatched
    cmd,           \* handler frame: the command being handled
    args,          \* handler frame: context.args
    pc,            \* handler frame: position of the handler
    city,          \* weather_command: city
    attempt,       \* weather_command: loop variable of line 122
    calls,         \* number of get_weather calls of this invocation
    gets,          \* number of requests.get calls of this invocation
    slept,         \* seconds spent in time.sleep by this invocation
    text,          \* weather_info / joke / news: the string to reply with
    resp,          \* what the provider answered to the latest request
    exc,           \* exception that left the handler, "none" otherwise
    sent           \* texts passed to reply_text and delivered, in order

vars == <<mainPc, handlers, commandsSet, neverAwaited, queue, cmd, args, pc,
          city, attempt, calls, gets, slept, text, resp, exc, sent>>

frame == <<cmd, args, pc, city, attempt, calls, gets, slept, text, resp, exc, sent>>

startup == <<mainPc, handlers, commandsSet, neverAwaited>>

----------------------------------------------------------------------------
(* Bounds *)

MaxQueue == 2      \* updates waiting in the update queue
MaxArticles == 2   \* length of the provider's article list

(* Program constants *)

ATTEMPTS == 3        \* attempts = 3
SLEEP_SECONDS == 2   \* time.sleep(2)

----------------------------------------------------------------------------
(* Strings of the source *)

SORRY == "motasefam"                         \* "متاسفم"

NOT_FOUND == <<SORRY, ", no weather data for this city">>     \* line 44
TIMEOUT_MSG == <<"weather service took too long">>            \* line 48
HTTP_MSG == <<"error talking to the weather server">>         \* line 51
GENERIC_MSG == <<SORRY, ", an error occurred">>               \* line 54
JOKE_NONE == <<"Sorry, I couldn't find a joke right now. Try again later.">>
JOKE_FAIL == <<SORRY, ", could not find a joke">>             \* line 73
NEWS_NONE == <<SORRY, ", no news found">>                     \* line 99
NEWS_FAIL == <<SORRY, ", error fetching news">>               \* line 102
GREETING == <<"salam! IranSC bot, welcome">>                  \* line 107
HELP_TEXT == <<"use /weather <city>, /joke, /news">>          \* line 111
USAGE == <<"please enter a city name, e.g. /weather tehran">> \* line 118
TITLE_DEFAULT == <<"title unknown">>                          \* line 87
DESCRIPTION_DEFAULT == <<"no description available">>         \* line 88
URL_DEFAULT == <<>>                                           \* line 89

ABSENT == <<"#absent">>    \* value of a key the JSON object does not have
NULL == <<"#null">>        \* JSON null, Python None

HandlerOrder == <<"start", "help", "weather", "joke", "news">>

COMMANDS ==
    << [command |-> "start", description |-> "start talking to the bot"],
       [command |-> "help", description |-> "get help"],
       [command |-> "weather", description |-> "weather for a city"],
       [command |-> "joke", description |-> "hear a random joke"],
       [command |-> "news", description |-> "news about AI and programming"] >>

----------------------------------------------------------------------------
(* Python string operations *)

\* x in s, on tokens
Contains(s, tok) == \E i \in DOMAIN s : s[i] = tok

\* str.lower of a word
Lower(w) == CASE w = "NEW" -> "new" [] OTHER -> w

\* first character upper case, the rest lower case
Title(w) ==
    CASE w = "tehran" -> "Tehran"
      [] w = "NEW" -> "New"
      [] w = "york" -> "York"
      [] OTHER -> w

\* " ".join(context.args)
RECURSIVE Join(_)
Join(a) ==
    IF a = <<>> THEN <<>>
    ELSE IF Len(a) = 1 THEN <<a[1]>>
    ELSE <<a[1], " ">> \o Join(Tail(a))

\* str.capitalize
Capitalize(s) ==
    IF s = <<>> THEN <<>>
    ELSE <<Title(s[1])>> \o [i \in 1..(Len(s) - 1) |-> Lower(s[i + 1])]

\* str(v) inside an f-string
Format(v) == IF v = NULL THEN <<"None">> ELSE v

----------------------------------------------------------------------------
(* Provider responses *)

NoResp ==
    [net |-> "none", top |-> "none", keys |-> {}, cur |-> {},
     text |-> ABSENT, temp_c |-> ABSENT, humidity |-> ABSENT, wind_kph |-> ABSENT,
     type |-> ABSENT, joke |-> ABSENT, setup |-> ABSENT, delivery |-> ABSENT,
     articles |-> <<>>]

\* requests.get or raise_for_status failed, or the body is not JSON
Failure(kind) == [NoResp EXCEPT !.net = kind]

\* a JSON document whose top-level value is not an object
NonObject(kind) == [NoResp EXCEPT !.net = "ok", !.top = kind]

Opt(present, v) == IF present THEN v ELSE ABSENT

ConditionTexts == {<<"Sunny">>, <<SORRY, "rainy">>}

WeatherObjects ==
    {[NoResp EXCEPT !.net = "ok", !.top = "object"]}
    \cup
    {[NoResp EXCEPT !.net = "ok", !.top = "object", !.keys = {"current"},
                    !.cur = c,
                    !.text = IF "text" \in c THEN t ELSE ABSENT,
                    !.temp_c = Opt("temp_c" \in c, <<"25">>),
                    !.humidity = Opt("humidity" \in c, <<"30">>),
                    !.wind_kph = Opt("wind_kph" \in c, <<"10">>)] :
        c \in SUBSET {"text", "temp_c", "humidity", "wind_kph"},
        t \in ConditionTexts}

WeatherOutcomes ==
    {Failure(k) : k \in {"timeout", "http_error", "connection_error", "not_json"}}
    \cup {NonObject("array"), NonObject("number")}
    \cup WeatherObjects

JokeObjects ==
    {[NoResp EXCEPT !.net = "ok", !.top = "object", !.keys = k,
                    !.type = IF "type" \in k THEN t ELSE ABSENT,
                    !.joke = Opt("joke" \in k, <<"X">>),
                    !.setup = Opt("setup" \in k, <<"A">>),
                    !.delivery = Opt("delivery" \in k, <<"B">>)] :
        k \in SUBSET {"type", "joke", "setup", "delivery"},
        t \in {<<"single">>, <<"twopart">>, <<"pun">>}}

JokeOutcomes ==
    {Failure(k) : k \in {"timeout", "http_error", "connection_error"}}
    \cup {NonObject("array")}
    \cup JokeObjects

Article(k, t, d, u) ==
    [keys |-> k, title |-> Opt("title" \in k, t),
     description |-> Opt("description" \in k, d), url |-> Opt("url" \in k, u)]

AllKeys == {"title", "description", "url"}

Articles ==
    { Article(AllKeys, <<"T1">>, <<"D1">>, <<"U1">>),
      Article(AllKeys, <<"T2">>, NULL, <<"U2">>),
      Article({"description"}, ABSENT, <<"D3">>, ABSENT) }

ArticleLists == UNION {[1..n -> Articles] : n \in 0..MaxArticles}

NewsOutcomes ==
    {Failure(k) : k \in {"timeout", "http_error", "connection_error"}}
    \cup {NonObject("array")}
    \cup {[NoResp EXCEPT !.net = "ok", !.top = "object"]}
    \cup {[NoResp EXCEPT !.net = "ok", !.top = "object", !.keys = {"articles"},
                         !.articles = l] : l \in ArticleLists}

ArgLists == {<<>>, <<"tehran">>, <<"NEW", "york">>}

Commands == {"start", "help", "weather", "joke", "news"}

\* the updates users send: /weather with each argument list; the handlers of
\* the other commands never read context.args
Updates ==
    {[cmd |-> "weather", args |-> a] : a \in ArgLists}
    \cup {[cmd |-> c, args |-> <<>>] : c \in Commands \ {"weather"}}
    \cup {[cmd |-> "start", args |-> <<"tehran">>]}

----------------------------------------------------------------------------
(* Results of a call: a returned value or an exception *)

Return(v) == [exc |-> "none", val |-> v]
Raise(e) == [exc |-> e, val |-> <<>>]

\* requests.get(url, timeout=10); response.raise_for_status(); response.json()
Request(r) ==
    CASE r.net = "timeout" -> "Timeout"
      [] r.net = "connection_error" -> "ConnectionError"
      [] r.net = "http_error" -> "HTTPError"
      [] r.net = "not_json" -> "JSONDecodeError"
      [] OTHER -> "none"

\* subclasses of requests.exceptions.RequestException raised by Request
IsRequestException(e) == e \in {"Timeout", "ConnectionError", "HTTPError"}

----------------------------------------------------------------------------
(* dict operations *)

\* d.get(k, default)
DictGet(d, k, default) == IF k \in d.keys THEN d[k] ELSE default

----------------------------------------------------------------------------
(* get_weather *)

\* the f-string of lines 35-41; conditions, numbers and the city are formatted in
WeatherInfo(c, r) ==
    <<"weather of ">> \o Capitalize(c)
    \o <<"\ndescription: ">> \o Format(r.text)
    \o <<"\ntemperature: ">> \o Format(r.temp_c) \o <<"C">>
    \o <<"\nhumidity: ">> \o Format(r.humidity) \o <<"%">>
    \o <<"\nwind speed: ">> \o Format(r.wind_kph) \o <<" km/h">>

\* the try block, lines 25-44
GetWeatherTry(c, r) ==
    IF Request(r) # "none" THEN Raise(Request(r))
    ELSE IF r.top = "number" THEN Raise("TypeError")            \* 'current' in 5
    ELSE IF r.top = "object" /\ "current" \in r.keys THEN
        IF \E k \in {"text", "temp_c", "humidity", "wind_kph"} : k \notin r.cur
        THEN Raise("KeyError")
        ELSE Return(WeatherInfo(c, r))
    ELSE Return(NOT_FOUND)

\* a bug get_weather could have: no catch-all except clause
GetWeatherNoCatchAll(c, r) ==
    LET t == GetWeatherTry(c, r) IN
    IF t.exc = "none" THEN t
    ELSE IF t.exc = "Timeout" THEN Return(TIMEOUT_MSG)
    ELSE IF t.exc = "HTTPError" THEN Return(HTTP_MSG)
    ELSE t

\* lines 20-54: the try block and its three except clauses
get_weather(c, r) ==
    LET t == GetWeatherTry(c, r) IN
    IF t.exc = "none" THEN t
    ELSE IF t.exc = "Timeout" THEN Return(TIMEOUT_MSG)
    ELSE IF t.exc = "HTTPError" THEN Return(HTTP_MSG)
    ELSE Return(GENERIC_MSG)

----------------------------------------------------------------------------
(* fetch_joke *)

\* the try block, lines 61-70
FetchJokeTry(r) ==
    IF Request(r) # "none" THEN Raise(Request(r))
    ELSE IF r.top # "object" THEN Raise("AttributeError")       \* [].get
    ELSE IF DictGet(r, "type", NULL) = <<"single">> THEN
        IF "joke" \in r.keys THEN Return(r.joke) ELSE Raise("KeyError")
    ELSE IF DictGet(r, "type", NULL) = <<"twopart">> THEN
        IF "setup" \in r.keys /\ "delivery" \in r.keys
        THEN Return(r.setup \o <<" - ">> \o r.delivery)
        ELSE Raise("KeyError")
    ELSE Return(JOKE_NONE)

\* lines 57-73: only RequestException is caught
fetch_joke(r) ==
    LET t == FetchJokeTry(r) IN
    IF IsRequestException(t.exc) THEN Return(JOKE_FAIL) ELSE t

----------------------------------------------------------------------------
(* fetch_news *)

\* the f-string of lines 91-96
NewsInfo(title, description, url) ==
    <<"news about AI and programming:\n\n">>
    \o <<"title: ">> \o Format(title)
    \o <<"\ndescription: ">> \o Format(description)
    \o <<"\nlink: ">> \o Format(url)

\* the indices random.choice(articles) can pick
Choices(r) == IF r.articles = <<>> THEN {0} ELSE DOMAIN r.articles

\* a bug fetch_news could have: the title is read from the first article
FetchNewsTitleOfFirst(r, i) ==
    IF Request(r) # "none" THEN
        IF IsRequestException(Request(r)) THEN Return(NEWS_FAIL) ELSE Raise(Request(r))
    ELSE IF r.top # "object" THEN Raise("AttributeError")
    ELSE LET articles == DictGet(r, "articles", <<>>) IN
         IF articles # <<>> THEN
             Return(NewsInfo(DictGet(articles[1], "title", TITLE_DEFAULT),
                             DictGet(articles[i], "description", DESCRIPTION_DEFAULT),
                             DictGet(articles[i], "url", URL_DEFAULT)))
         ELSE Return(NEWS_NONE)

\* lines 76-102; i is the index random.choice picks
fetch_news(r, i) ==
    IF Request(r) # "none" THEN
        IF IsRequestException(Request(r)) THEN Return(NEWS_FAIL) ELSE Raise(Request(r))
    ELSE IF r.top # "object" THEN Raise("AttributeError")       \* [].get
    ELSE LET articles == DictGet(r, "articles", <<>>) IN
         IF articles # <<>> THEN
             LET article == articles[i] IN
             Return(NewsInfo(DictGet(article, "title", TITLE_DEFAULT),
                             DictGet(article, "description", DESCRIPTION_DEFAULT),
                             DictGet(article, "url", URL_DEFAULT)))
         ELSE Return(NEWS_NONE)

----------------------------------------------------------------------------
(* weather_command *)

\* a bug weather_command could have: no test of context.args
WeatherEntryNoArgsTest(a) ==
    [pc |-> "get_weather", city |-> Join(a), text |-> <<>>]

\* lines 115-119: where the handler goes after looking at context.args
WeatherEntry(a) ==
    IF a # <<>>
    THEN [pc |-> "get_weather", city |-> Join(a), text |-> <<>>]
    ELSE [pc |-> "awaiting_reply", city |-> <<>>, text |-> USAGE]

\* lines 124-130: the three branches of the loop body
RetryBranch(weather_info, att) ==
    IF ~Contains(weather_info, SORRY) THEN "break"
    ELSE IF att < ATTEMPTS - 1 THEN "sleep"
    ELSE "exhausted"

----------------------------------------------------------------------------
(* main *)

Init ==
    /\ mainPc = "build"
    /\ handlers = <<>>
    /\ commandsSet = <<>>
    /\ neverAwaited = <<>>
    /\ queue = <<>>
    /\ cmd = "none"
    /\ args = <<>>
    /\ pc = "idle"
    /\ city = <<>>
    /\ attempt = 0
    /\ calls = 0
    /\ gets = 0
    /\ slept = 0
    /\ text = <<>>
    /\ resp = NoResp
    /\ exc = "none"
    /\ sent = <<>>

\* line 146
MainBuild ==
    /\ mainPc = "build"
    /\ mainPc' = "add_handler"
    /\ UNCHANGED <<handlers, commandsSet, neverAwaited, queue, frame>>

\* lines 149-153, one add_handler call at a time
MainAddHandler ==
    /\ mainPc = "add_handler"
    /\ handlers' = Append(handlers, HandlerOrder[Len(handlers) + 1])
    /\ mainPc' = IF Len(handlers') = Len(HandlerOrder)
                 THEN "set_my_commands" ELSE "add_handler"
    /\ UNCHANGED <<commandsSet, neverAwaited, queue, frame>>

\* lines 156-163: Bot.set_my_commands is a coroutine function; the call builds a
\* coroutine object that main never awaits, so the request is never made
MainSetMyCommands ==
    /\ mainPc = "set_my_commands"
    /\ neverAwaited' = Append(neverAwaited, "set_my_commands")
    /\ mainPc' = "run_polling"
    /\ UNCHANGED <<handlers, commandsSet, queue, frame>>

\* lines 165-166
MainRunPolling ==
    /\ mainPc = "run_polling"
    /\ mainPc' = "polling"
    /\ UNCHANGED <<handlers, commandsSet, neverAwaited, queue, frame>>

----------------------------------------------------------------------------
(* The receive loop of run_polling: one event loop thread *)

Registered == {handlers[i] : i \in DOMAIN handlers}

\* the event loop thread is not inside synchronous handler code
LoopFree == pc \notin {"get_weather", "sleeping"}

\* the handler of the previous update has returned or raised
HandlerFinished == pc \in {"idle", "done", "raised"}

\* the updater puts a fetched update into the update queue
Arrive(u) ==
    /\ mainPc = "polling"
    /\ LoopFree
    /\ Len(queue) < MaxQueue
    /\ queue' = Append(queue, u)
    /\ UNCHANGED <<startup, frame>>

\* the dispatcher takes the next update once the previous handler is finished
Dispatch(c) ==
    /\ mainPc = "polling"
    /\ HandlerFinished
    /\ queue # <<>>
    /\ Head(queue).cmd = c
    /\ c \in Registered
    /\ queue' = Tail(queue)
    /\ cmd' = c
    /\ args' = Head(queue).args
    /\ attempt' = 0
    /\ slept' = 0
    /\ sent' = <<>>
    /\ UNCHANGED startup

\* lines 105-107, up to the await
StartCommand ==
    /\ Dispatch("start")
    /\ text' = GREETING
    /\ pc' = "awaiting_reply"
    /\ city' = <<>> /\ calls' = 0 /\ gets' = 0 /\ resp' = NoResp /\ exc' = "none"

\* lines 109-111, up to the await
HelpCommand ==
    /\ Dispatch("help")
    /\ text' = HELP_TEXT
    /\ pc' = "awaiting_reply"
    /\ city' = <<>> /\ calls' = 0 /\ gets' = 0 /\ resp' = NoResp /\ exc' = "none"

\* lines 113-121: the test of context.args
WeatherCommand ==
    /\ Dispatch("weather")
    /\ LET e == WeatherEntry(Head(queue).args) IN
        /\ pc' = e.pc
        /\ city' = e.city
        /\ text' = e.text
    /\ calls' = 0 /\ gets' = 0 /\ resp' = NoResp /\ exc' = "none"

\* lines 122-130: one iteration of the loop up to the sleep, the break or the end
WeatherAttempt ==
    /\ pc = "get_weather"
    /\ \E r \in WeatherOutcomes :
        LET res == get_weather(city, r) IN
        /\ resp' = r
        /\ calls' = calls + 1
        /\ gets' = gets + 1
        /\ IF res.exc # "none"
           THEN /\ exc' = res.exc
                /\ pc' = "raised"
                /\ text' = text
           ELSE /\ exc' = exc
                /\ text' = res.val
                /\ pc' = IF RetryBranch(res.val, attempt) = "sleep"
                         THEN "sleeping" ELSE "awaiting_reply"
    /\ UNCHANGED <<startup, queue, cmd, args, city, attempt, slept, sent>>

\* line 128 returns; the for statement advances
WeatherSleep ==
    /\ pc = "sleeping"
    /\ slept' = slept + SLEEP_SECONDS
    /\ attempt' = attempt + 1
    /\ pc' = "get_weather"
    /\ UNCHANGED <<startup, queue, cmd, args, city, calls, gets, text, resp, exc, sent>>

\* lines 134-137, up to the await
JokeCommand ==
    /\ Dispatch("joke")
    /\ \E r \in JokeOutcomes :
        LET res == fetch_joke(r) IN
        /\ resp' = r
        /\ exc' = res.exc
        /\ text' = res.val
        /\ pc' = IF res.exc # "none" THEN "raised" ELSE "awaiting_reply"
    /\ city' = <<>> /\ calls' = 0 /\ gets' = 1

\* lines 139-142, up to the await
NewsCommand ==
    /\ Dispatch("news")
    /\ \E r \in NewsOutcomes : \E i \in Choices(r) :
        LET res == fetch_news(r, i) IN
        /\ resp' = r
        /\ exc' = res.exc
        /\ text' = res.val
        /\ pc' = IF res.exc # "none" THEN "raised" ELSE "awaiting_reply"
    /\ city' = <<>> /\ calls' = 0 /\ gets' = 1

\* await update.message.reply_text(...) completes and the handler returns
Reply ==
    /\ pc = "awaiting_reply"
    /\ sent' = Append(sent, text)
    /\ pc' = "done"
    /\ UNCHANGED <<startup, queue, cmd, args, city, attempt, calls, gets, slept,
                   text, resp, exc>>

Next ==
    \/ MainBuild
    \/ MainAddHandler
    \/ MainSetMyCommands
    \/ MainRunPolling
    \/ \E u \in Updates : Arrive(u)
    \/ StartCommand
    \/ HelpCommand
    \/ WeatherCommand
    \/ WeatherAttempt
    \/ WeatherSleep
    \/ JokeCommand
    \/ NewsCommand
    \/ Reply

Spec == Init /\ [][Next]_vars

----------------------------------------------------------------------------
(* Properties *)

\* the handler has reached its reply_text call
Handled == pc \in {"awaiting_reply", "done"}

\* a success response with every field the weather report reads
WellFormed(r) ==
    /\ r.net = "ok" /\ r.top = "object" /\ "current" \in r.keys
    /\ r.cur = {"text", "temp_c", "humidity", "wind_kph"}

\* one of the two joke shapes, complete
RecognizedJoke(r) ==
    /\ r.net = "ok" /\ r.top = "object" /\ "type" \in r.keys
    /\ \/ r.type = <<"single">> /\ "joke" \in r.keys
       \/ r.type = <<"twopart">> /\ {"setup", "delivery"} \subseteq r.keys

\* C1: a /weather invocation with arguments calls get_weather at most 3 times,
\* and once a call has returned a report built from a well-formed response
\* there is no further call and no pause: the handler replies with that report.
C1_StopsAtFirstReport ==
    cmd = "weather" /\ args # <<>> =>
        /\ calls <= ATTEMPTS
        /\ calls > 0 /\ WellFormed(resp) =>
            /\ Handled
            /\ text = WeatherInfo(city, resp)
            /\ pc = "done" => sent = <<WeatherInfo(city, resp)>>

\* C2: after a failed attempt of any kind (timeout, HTTP error status,
\* unrecognized shape, other exception) the handler pauses 2 seconds and tries
\* again if the attempt was the 1st or 2nd, and replies with the last failure
\* string, without a pause, if it was the 3rd.
C2_FailedAttemptRetried ==
    cmd = "weather" /\ calls > 0 /\ ~WellFormed(resp) /\ exc = "none" =>
        IF calls < ATTEMPTS
        THEN \/ pc = "sleeping" /\ slept = SLEEP_SECONDS * (calls - 1)
             \/ pc = "get_weather" /\ slept = SLEEP_SECONDS * calls
        ELSE /\ Handled
             /\ slept = SLEEP_SECONDS * (ATTEMPTS - 1)
             /\ text = get_weather(city, resp).val
             /\ pc = "done" => sent = <<text>>

\* C3: every invocation of a handler sends exactly one reply: never more than
\* one, and one once the handler has finished, whatever the provider did.
C3_ExactlyOneReply ==
    /\ Len(sent) <= 1
    /\ pc \in {"done", "raised"} => Len(sent) = 1

\* C4: get_weather never raises to weather_command: whatever the provider
\* answers, the call returns one of its fixed messages or the weather report.
C4_GetWeatherNeverRaises ==
    cmd = "weather" =>
        /\ exc = "none"
        /\ pc # "raised"
        /\ calls > 0 =>
            \/ text \in {NOT_FOUND, TIMEOUT_MSG, HTTP_MSG, GENERIC_MSG}
            \/ WellFormed(resp) /\ text = WeatherInfo(city, resp)

\* C4 happens: a response with 'current' but without a nested field was received
\* and get_weather returned its generic error string.
C4_Witness ==
    /\ cmd = "weather" /\ calls > 0
    /\ resp.net = "ok" /\ "current" \in resp.keys /\ "temp_c" \notin resp.cur
    /\ text = GENERIC_MSG
    /\ exc = "none"

\* C5: for every provider outcome that is not a complete single or two-part
\* joke, fetch_joke does not raise and returns a fallback message.
C5_JokeFallbackNeverRaises ==
    cmd = "joke" /\ pc # "idle" /\ ~RecognizedJoke(resp) =>
        /\ exc = "none"
        /\ text \in {JOKE_FAIL, JOKE_NONE}

\* C6: /weather with an empty argument list never calls get_weather, makes no
\* request and no pause, and replies with the usage prompt.
C6_NoArgsNoCall ==
    cmd = "weather" /\ args = <<>> =>
        /\ calls = 0 /\ gets = 0 /\ slept = 0
        /\ Handled
        /\ text = USAGE
        /\ pc = "done" => sent = <<USAGE>>

\* C6 happens: a /weather without arguments was handled and answered.
C6_Witness ==
    /\ cmd = "weather" /\ args = <<>>
    /\ pc = "done" /\ sent = <<USAGE>> /\ calls = 0

\* C7: for a success response that is an object of a malformed shape (no
\* 'current', 'current' lacking a nested field, empty object) get_weather
\* returns the "not found" string, having made one request.
C7_MalformedIsNotFound ==
    cmd = "weather" /\ calls > 0 /\ resp.net = "ok" /\ resp.top = "object"
    /\ ~WellFormed(resp) =>
        /\ text = NOT_FOUND
        /\ gets = calls

\* what the article supplies for key k: nothing for a missing key or a null
Supplied(a, k) == IF k \in a.keys /\ a[k] # NULL THEN a[k] ELSE <<>>

\* C8 as stated: an empty article list gives the "no news found" string; a
\* non-empty one gives the title, description and link of one listed article
\* and no title, description or link text that article did not supply.
C8_NewsOnlySuppliedText ==
    cmd = "news" /\ Handled /\ resp.net = "ok" /\ resp.top = "object" =>
        IF resp.articles = <<>>
        THEN text = NEWS_NONE
        ELSE \E i \in DOMAIN resp.articles :
                LET a == resp.articles[i] IN
                text = <<"news about AI and programming:\n\n">>
                       \o <<"title: ">> \o Supplied(a, "title")
                       \o <<"\ndescription: ">> \o Supplied(a, "description")
                       \o <<"\nlink: ">> \o Supplied(a, "url")

\* what the reply shows for key k of article a
Shown(a, k, placeholder) ==
    IF k \notin a.keys THEN placeholder
    ELSE IF a[k] = NULL THEN <<"None">>
    ELSE a[k]

\* C8 amended: an empty article list gives the "no news found" string; a
\* non-empty one gives the template filled from one single listed article, each
\* field as that article supplies it (null shown as None), and a field the
\* article lacks replaced by its fixed placeholder.
C8_NewsOneListedArticle ==
    cmd = "news" /\ Handled /\ resp.net = "ok" /\ resp.top = "object" =>
        IF resp.articles = <<>>
        THEN text = NEWS_NONE
        ELSE \E i \in DOMAIN resp.articles :
                LET a == resp.articles[i] IN
                text = <<"news about AI and programming:\n\n">>
                       \o <<"title: ">> \o Shown(a, "title", TITLE_DEFAULT)
                       \o <<"\ndescription: ">>
                       \o Shown(a, "description", DESCRIPTION_DEFAULT)
                       \o <<"\nlink: ">> \o Shown(a, "url", URL_DEFAULT)

\* C8 happens: from a list of two different articles the one without a title
\* and link was picked and sent with the placeholders.
C8_Witness ==
    /\ cmd = "news" /\ pc = "done"
    /\ Len(resp.articles) = 2
    /\ resp.articles[1] # resp.articles[2]
    /\ "title" \notin resp.articles[2].keys
    /\ Contains(text, "title unknown") /\ Contains(text, "D3")
    /\ sent = <<text>>

\* the dispatcher starts the handler of the next queued update
DispatchNext ==
    StartCommand \/ HelpCommand \/ WeatherCommand \/ JokeCommand \/ NewsCommand

\* C9: while a /weather invocation is in its retry pause, a command that has
\* arrived and waits can be dispatched.
C9_PauseBlocksOnlyItsCommand ==
    pc = "sleeping" /\ queue # <<>> => ENABLED DispatchNext

\* C10: the receive loop is entered only with the five handlers registered and
\* the command metadata received by the platform.
C10_MetadataRegisteredBeforePolling ==
    mainPc = "polling" =>
        /\ Registered = Commands
        /\ commandsSet = COMMANDS

====
